---- MODULE Spec2Model ----
(***************************************************************************)
(* hszinc/fast_zincparser.py: the fast Zinc grid parser and its fallback   *)
(* dispatcher.                                                             *)
(*                                                                         *)
(* Text is a sequence of code points (naturals), so that chr(int(h, 16))   *)
(* is a computation.  A Python value is a tuple whose first element names  *)
(* its type; an operator that can raise returns <<"ok", v>> or             *)
(* <<"raise", reason>>.  The backtick cannot stand in a TLA+ string: it is *)
(* written "BACKTICK".                                                     *)
(***************************************************************************)
EXTENDS Integers, Sequences, FiniteSets, TLC

VARIABLES
    pc,         \* position of the running call
    arg,        \* text argument of the call (s, value, line, meta_str, grid_str)
    uri,        \* _unescape's uri flag
    ret,        \* what the call returned or raised
    lines,      \* parse_grid_fast: grid_str.split('\n')
    line_idx,   \* parse_grid_fast: index of the next line (0-based, as in the code)
    version,    \* parse_grid_fast: the Version of line 1
    grid_meta,  \* parse_grid_fast: the grid metadata of line 1
    columns,    \* parse_grid_fast: the column list [(name, meta)]
    grid,       \* parse_grid_fast: the Grid under construction
    rules,      \* history: per appended row, the scalar rule that decoded each value
    err,        \* the exception that left parse_grid_fast
    slow_calls  \* history: the texts handed to parse_grid_slow

gridvars == <<lines, line_idx, version, grid_meta, columns, grid, rules, err, slow_calls>>

vars == <<pc, arg, uri, ret, gridvars>>

(***************************************************************************)
(* Characters.                                                             *)
(***************************************************************************)
AsciiChars ==
    <<" ", "!", "\"", "#", "$", "%", "&", "'", "(", ")", "*", "+", ",", "-", ".", "/",
      "0", "1", "2", "3", "4", "5", "6", "7", "8", "9", ":", ";", "<", "=", ">", "?",
      "@", "A", "B", "C", "D", "E", "F", "G", "H", "I", "J", "K", "L", "M", "N", "O",
      "P", "Q", "R", "S", "T", "U", "V", "W", "X", "Y", "Z", "[", "\\", "]", "^", "_",
      "BACKTICK", "a", "b", "c", "d", "e", "f", "g", "h", "i", "j", "k", "l", "m", "n", "o",
      "p", "q", "r", "s", "t", "u", "v", "w", "x", "y", "z", "{", "|", "}", "~">>

OrdTable ==
    [c \in {AsciiChars[i] : i \in 1..Len(AsciiChars)} \cup {"\n", "\t", "\r", "\f"} |->
        IF c = "\n" THEN 10
        ELSE IF c = "\t" THEN 9
        ELSE IF c = "\r" THEN 13
        ELSE IF c = "\f" THEN 12
        ELSE 31 + (CHOOSE i \in 1..Len(AsciiChars) : AsciiChars[i] = c)]

\* ord(c): the code point of a one-character literal
ord(c) == OrdTable[c]

\* a text literal, written as a tuple of one-character strings
Str(t) == [i \in 1..Len(t) |-> OrdTable[t[i]]]

\* every text over an alphabet (a set of code points) of length 0..n
Texts(alphabet, n) == UNION {[1..k -> alphabet] : k \in 0..n}

Min(a, b) == IF a < b THEN a ELSE b

isdigit(c) == c >= 48 /\ c <= 57
isupper(c) == c >= 65 /\ c <= 90
islower(c) == c >= 97 /\ c <= 122
isalpha(c) == isupper(c) \/ islower(c)
\* regex \w on the ASCII range
isword(c) == isalpha(c) \/ isdigit(c) \/ c = 95
\* str.strip() and regex \s whitespace on the ASCII range
isspace(c) == c \in {9, 10, 11, 12, 13, 28, 29, 30, 31, 32}
ishex(c) == isdigit(c) \/ (c >= 65 /\ c <= 70) \/ (c >= 97 /\ c <= 102)

Raise(reason) == <<"raise", reason>>
Ok(v) == <<"ok", v>>
IsOk(r) == r[1] = "ok"

\* s[a:b] with 1-based inclusive bounds
Slice(s, a, b) == IF a > b THEN <<>> ELSE SubSeq(s, a, b)

\* sub in s
Contains(s, sub) ==
    \E i \in 1..(Len(s) - Len(sub) + 1) : Slice(s, i, i + Len(sub) - 1) = sub

\* s.startswith(p)
startswith(s, p) == Len(s) >= Len(p) /\ Slice(s, 1, Len(p)) = p

RECURSIVE lstrip(_)
lstrip(s) == IF s # <<>> /\ isspace(s[1]) THEN lstrip(Tail(s)) ELSE s

RECURSIVE rstrip(_)
rstrip(s) ==
    IF s # <<>> /\ isspace(s[Len(s)]) THEN rstrip(Slice(s, 1, Len(s) - 1)) ELSE s

\* s.strip()
strip(s) == rstrip(lstrip(s))

\* first index >= i of character c in s, or Len(s) + 1
RECURSIVE Find(_, _, _)
Find(s, c, i) == IF i > Len(s) \/ s[i] = c THEN i ELSE Find(s, c, i + 1)

\* first index >= i whose character is no digit, or Len(s) + 1
RECURSIVE DigitsEnd(_, _)
DigitsEnd(s, i) == IF i > Len(s) \/ ~isdigit(s[i]) THEN i ELSE DigitsEnd(s, i + 1)

\* first index >= i whose character is no word character, or Len(s) + 1
RECURSIVE WordEnd(_, _)
WordEnd(s, i) == IF i > Len(s) \/ ~isword(s[i]) THEN i ELSE WordEnd(s, i + 1)

\* s.split(sep): the pieces between the occurrences of character sep
RECURSIVE split(_, _)
split(s, sep) ==
    LET p == Find(s, sep, 1)
    IN  IF p > Len(s) THEN <<s>>
        ELSE <<Slice(s, 1, p - 1)>> \o split(Slice(s, p + 1, Len(s)), sep)

(***************************************************************************)
(* _unescape                                                               *)
(***************************************************************************)
\* s[i], or -1 outside the text
At(s, i) == IF i >= 1 /\ i <= Len(s) THEN s[i] ELSE 0 - 1

HexDigit(c) ==
    IF isdigit(c) THEN c - 48 ELSE IF c >= 97 THEN c - 87 ELSE c - 55

RECURSIVE HexValue(_)
HexValue(h) ==
    IF h = <<>> THEN 0 ELSE 16 * HexValue(Slice(h, 1, Len(h) - 1)) + HexDigit(h[Len(h)])

\* the digits of int(_, 16): hex digits, single underscores between them
HexDigitsOk(d) ==
    /\ d # <<>>
    /\ \A i \in 1..Len(d) : ishex(d[i]) \/ d[i] = 95
    /\ ishex(d[1]) /\ ishex(d[Len(d)])
    /\ \A i \in 1..(Len(d) - 1) : ~(d[i] = 95 /\ d[i + 1] = 95)

\* chr(int(h, 16)): int() strips whitespace and takes a sign, a 0x prefix and
\* underscores between digits; chr() raises on a negative value
ChrOfDigits(negative, d) ==
    IF ~HexDigitsOk(d) THEN Raise("ValueError")
    ELSE IF negative /\ HexValue(SelectSeq(d, ishex)) # 0 THEN Raise("ValueError")
    ELSE Ok(HexValue(SelectSeq(d, ishex)))

\* the digits of the unsigned text u: after a 0x prefix and one underscore, if any
AfterPrefix(u) ==
    IF Len(u) >= 2 /\ u[1] = 48 /\ u[2] \in {88, 120}
    THEN Slice(u, IF At(u, 3) = 95 THEN 4 ELSE 3, Len(u))
    ELSE u

ChrOfStripped(t) ==
    IF t # <<>> /\ t[1] \in {43, 45} THEN ChrOfDigits(t[1] = 45, AfterPrefix(Tail(t)))
    ELSE ChrOfDigits(FALSE, AfterPrefix(t))

ChrIntHex(h) == ChrOfStripped(strip(h))

\* the while loop of _unescape from (1-based) index i, result accumulated in acc
RECURSIVE UnescapeLoop(_, _, _, _)
RECURSIVE UnescapeHex(_, _, _, _, _)
UnescapeLoop(s, is_uri, i, acc) ==
    IF i > Len(s) THEN Ok(acc)
    ELSE IF s[i] = ord("\\") /\ i + 1 <= Len(s) THEN
        LET esc_c == s[i + 1]
        IN  IF esc_c \in {ord("u"), ord("U")} /\ i + 5 <= Len(s)
                THEN UnescapeHex(s, is_uri, i, acc, ChrIntHex(Slice(s, i + 2, i + 5)))
            ELSE IF esc_c = ord("b") THEN UnescapeLoop(s, is_uri, i + 2, Append(acc, 8))
            ELSE IF esc_c = ord("f") THEN UnescapeLoop(s, is_uri, i + 2, Append(acc, 12))
            ELSE IF esc_c = ord("n") THEN UnescapeLoop(s, is_uri, i + 2, Append(acc, 10))
            ELSE IF esc_c = ord("r") THEN UnescapeLoop(s, is_uri, i + 2, Append(acc, 13))
            ELSE IF esc_c = ord("t") THEN UnescapeLoop(s, is_uri, i + 2, Append(acc, 9))
            ELSE IF is_uri /\ esc_c = ord("#")
                THEN UnescapeLoop(s, is_uri, i + 2, acc \o <<ord("\\"), esc_c>>)
            ELSE UnescapeLoop(s, is_uri, i + 2, Append(acc, esc_c))
    ELSE UnescapeLoop(s, is_uri, i + 1, Append(acc, s[i]))

\* lines 46-48: result.append(chr(int(s[i+2:i+6], 16))), ch its outcome
UnescapeHex(s, is_uri, i, acc, ch) ==
    IF IsOk(ch) THEN UnescapeLoop(s, is_uri, i + 6, Append(acc, ch[2])) ELSE ch

_unescape(s, is_uri) ==
    IF ~Contains(s, <<ord("\\")>>) THEN Ok(s) ELSE UnescapeLoop(s, is_uri, 1, <<>>)

(***************************************************************************)
(* Numbers: float(), and the regular expressions of _parse_scalar          *)
(***************************************************************************)
RECURSIVE DecValue(_)
DecValue(d) ==
    IF d = <<>> THEN 0 ELSE 10 * DecValue(Slice(d, 1, Len(d) - 1)) + (d[Len(d)] - 48)

\* a double m * 10^e, written with the least |m| (0 is 0 * 10^0)
RECURSIVE Float(_, _)
Float(m, e) ==
    IF m = 0 THEN <<"float", 0, 0>>
    ELSE IF m % 10 = 0 THEN Float(m \div 10, e + 1)
    ELSE <<"float", m, e>>

\* end of digit ("_"? digit)* from index i: (?:\d+_)*\d+, longest match (i: none)
RECURSIVE DigitPartEnd(_, _)
DigitPartEnd(s, i) ==
    LET j == DigitsEnd(s, i)
    IN  IF j = i THEN i
        ELSE IF j + 1 <= Len(s) /\ s[j] = ord("_") /\ isdigit(s[j + 1])
            THEN DigitPartEnd(s, j + 1)
        ELSE j

IsSign(c) == c \in {ord("+"), ord("-")}

lower(s) == [i \in 1..Len(s) |-> IF isupper(s[i]) THEN s[i] + 32 ELSE s[i]]

\* the value of sign? intdigits [. fracdigits] [e expsign expdigits], underscores dropped
NumValue(negative, intpart, fracpart, expneg, exppart) ==
    LET fd == SelectSeq(fracpart, isdigit)
        m == DecValue(SelectSeq(intpart, isdigit) \o fd)
        x == DecValue(SelectSeq(exppart, isdigit))
    IN  Float(IF negative THEN 0 - m ELSE m, (IF expneg THEN 0 - x ELSE x) - Len(fd))

\* the index after a sign at i, i when there is none
AfterSign(s, i) == IF IsSign(At(s, i)) THEN i + 1 ELSE i

\* float() on the parts of t: digits i0..a-1, fraction a+1..b-1 after a dot at a,
\* exponent digits c0..c-1 after an "e" at b (c0 = b = c when there is none)
FloatParts(t, i0, a, b, c0, c) ==
    IF /\ (a > i0 \/ (At(t, a) = ord(".") /\ b > a + 1))
       /\ (c0 > b => c > c0)
       /\ c = Len(t) + 1
    THEN Ok(NumValue(At(t, 1) = ord("-"), Slice(t, i0, a - 1), Slice(t, a + 1, b - 1),
                     At(t, b + 1) = ord("-"), Slice(t, c0, c - 1)))
    ELSE Raise("ValueError")

FloatExponent(t, i0, a, b, c0) ==
    FloatParts(t, i0, a, b, c0, IF c0 > b THEN DigitPartEnd(t, c0) ELSE b)

FloatFraction(t, i0, a, b) ==
    FloatExponent(t, i0, a, b,
                  IF At(t, b) \in {ord("e"), ord("E")} THEN AfterSign(t, b + 1) ELSE b)

FloatDigits(t, i0, a) ==
    FloatFraction(t, i0, a, IF At(t, a) = ord(".") THEN DigitPartEnd(t, a + 1) ELSE a)

\* float() on the stripped text t whose sign ends before i0
FloatStripped(t, i0) ==
    IF lower(Slice(t, i0, Len(t))) \in
            {Str(<<"i", "n", "f">>), Str(<<"i", "n", "f", "i", "n", "i", "t", "y">>)}
        THEN Ok(IF At(t, 1) = ord("-") THEN <<"-inf">> ELSE <<"inf">>)
    ELSE IF lower(Slice(t, i0, Len(t))) = Str(<<"n", "a", "n">>) THEN Ok(<<"nan">>)
    ELSE FloatDigits(t, i0, DigitPartEnd(t, i0))

\* float(text): Python's float literal grammar on the stripped text
float(text) == FloatStripped(strip(text), AfterSign(strip(text), 1))

\* the unit class of NUMBER_RE: [\w%_/$] and U+0080..U+FFFF
isunit(c) ==
    isword(c) \/ c \in {ord("%"), ord("/"), ord("$")} \/ (c >= 128 /\ c <= 65535)

\* NUMBER_RE.match(value) on its parts: digits i0..a-1, then the unit from c
NumberUnit(v, i0, a, c) ==
    IF a > i0 /\ \A k \in c..Len(v) : isunit(v[k]) THEN <<"match", c>>
    ELSE <<"nomatch">>

\* (?:[eE][+-]?\d+)? at b, its digits at c0
NumberExponent(v, i0, a, b, c0) ==
    NumberUnit(v, i0, a,
               IF At(v, b) \in {ord("e"), ord("E")} /\ isdigit(At(v, c0))
               THEN DigitsEnd(v, c0) ELSE b)

\* (?:\.\d+)? at a
NumberFraction(v, i0, a, b) == NumberExponent(v, i0, a, b, AfterSign(v, b + 1))

NumberDigits(v, i0, a) ==
    NumberFraction(v, i0, a,
                   IF At(v, a) = ord(".") /\ isdigit(At(v, a + 1))
                   THEN DigitsEnd(v, a + 1) ELSE a)

\* NUMBER_RE.match(value): <<"match", end of group 1>> or <<"nomatch">>.  Every
\* part of group 1 is greedy and a shorter part only lengthens the rest, so the
\* match is the longest number prefix followed by unit characters alone.
NumberMatch(v) == NumberDigits(v, AfterSign(v, 1), DigitPartEnd(v, AfterSign(v, 1)))

(***************************************************************************)
(* Dates and times: strptime and iso8601.parse_date on the matched shapes  *)
(***************************************************************************)
IsLeap(y) == (y % 4 = 0 /\ y % 100 # 0) \/ y % 400 = 0

DaysIn(y, m) ==
    IF m = 2 THEN (IF IsLeap(y) THEN 29 ELSE 28)
    ELSE IF m \in {4, 6, 9, 11} THEN 30 ELSE 31

DateOk(y, m, d) == y >= 1 /\ m >= 1 /\ m <= 12 /\ d >= 1 /\ d <= DaysIn(y, m)

ClockOk(h, m, sec) == h <= 23 /\ m <= 59 /\ sec <= 59

\* the first six digits of a second fraction, as microseconds
Micro(frac) ==
    DecValue([i \in 1..6 |-> IF i <= Len(frac) THEN frac[i] ELSE 48])

\* digits at the (1-based) places a..b of s
AllDigits(s, a, b) == b <= Len(s) /\ \A k \in a..b : isdigit(s[k])

\* \d{4}-\d{2}-\d{2} at index i
DateShape(s, i) ==
    /\ AllDigits(s, i, i + 3) /\ At(s, i + 4) = ord("-")
    /\ AllDigits(s, i + 5, i + 6) /\ At(s, i + 7) = ord("-")
    /\ AllDigits(s, i + 8, i + 9)

\* \d{2}:\d{2}:\d{2} at index i
ClockShape(s, i) ==
    /\ AllDigits(s, i, i + 1) /\ At(s, i + 2) = ord(":")
    /\ AllDigits(s, i + 3, i + 4) /\ At(s, i + 5) = ord(":")
    /\ AllDigits(s, i + 6, i + 7)

\* [+-]\d{2}:\d{2} at index i
OffsetShape(s, i) ==
    /\ IsSign(At(s, i)) /\ AllDigits(s, i + 1, i + 2)
    /\ At(s, i + 3) = ord(":") /\ AllDigits(s, i + 4, i + 5)

\* zone names the time-zone resolver knows (hszinc.zoneinfo.timezone)
KnownZones == {Str(<<"U", "T", "C">>)}

\* DATETIME_RE.match(value) and the conversion of lines 146-157
DateTimeDecode(v) ==
    LET f == IF At(v, 20) = ord(".") /\ isdigit(At(v, 21)) THEN DigitsEnd(v, 21) ELSE 20
        z == IF At(v, f) = ord("Z") THEN f + 1
             ELSE IF OffsetShape(v, f) THEN f + 6 ELSE f
        w == IF At(v, z) = ord(" ") /\ isword(At(v, z + 1)) THEN WordEnd(v, z + 1) ELSE z
        tz_name == Slice(v, z + 1, w - 1)
        y == DecValue(Slice(v, 1, 4))
        mo == DecValue(Slice(v, 6, 7))
        d == DecValue(Slice(v, 9, 10))
        h == DecValue(Slice(v, 12, 13))
        mi == DecValue(Slice(v, 15, 16))
        sec == DecValue(Slice(v, 18, 19))
        off == IF OffsetShape(v, f)
               THEN (IF v[f] = ord("-") THEN 0 - 1 ELSE 1)
                    * (60 * DecValue(Slice(v, f + 1, f + 2)) + DecValue(Slice(v, f + 4, f + 5)))
               ELSE 0
    IN  IF ~(DateOk(y, mo, d) /\ ClockOk(h, mi, sec)) THEN Raise("ParseError")
        ELSE Ok(<<"datetime", <<y, mo, d, h, mi, sec, Micro(Slice(v, 21, f - 1))>>, off,
                  IF tz_name \in KnownZones THEN <<"str", tz_name>> ELSE <<"None">>>>)

DateTimeShape(v) == DateShape(v, 1) /\ At(v, 11) = ord("T") /\ ClockShape(v, 12)

\* DATE_RE and strptime(value, '%Y-%m-%d').date()
DateDecode(v) ==
    LET y == DecValue(Slice(v, 1, 4))
        m == DecValue(Slice(v, 6, 7))
        d == DecValue(Slice(v, 9, 10))
    IN  IF DateOk(y, m, d) THEN Ok(<<"date", y, m, d>>) ELSE Raise("ValueError")

\* TIME_RE: ^(\d{2}:\d{2}:\d{2}(?:\.\d+)?)$
TimeShape(v) ==
    /\ ClockShape(v, 1)
    /\ \/ Len(v) = 8
       \/ Len(v) >= 10 /\ v[9] = ord(".") /\ DigitsEnd(v, 10) = Len(v) + 1

\* strptime(time_str, '%H:%M:%S[.%f]').time(): %f takes one to six digits
TimeDecode(v) ==
    LET h == DecValue(Slice(v, 1, 2))
        m == DecValue(Slice(v, 4, 5))
        sec == DecValue(Slice(v, 7, 8))
    IN  IF ClockOk(h, m, sec) /\ Len(v) <= 15
        THEN Ok(<<"time", h, m, sec, Micro(Slice(v, 10, Len(v)))>>)
        ELSE Raise("ValueError")

(***************************************************************************)
(* _parse_scalar                                                           *)
(***************************************************************************)
PyNone == <<"None">>
MARKER == <<"MARKER">>
NA == <<"NA">>
REMOVE == <<"REMOVE">>
PyStr(s) == <<"str", s>>

\* COORD_RE.match(value): C\(([^,]+),([^)]+)\) -- <<comma, close>> or <<0, 0>>
CoordMatch(v) ==
    LET p == Find(v, ord(","), 3)
        q == Find(v, ord(")"), p + 1)
    IN  IF startswith(v, Str(<<"C", "(">>)) /\ p > 3 /\ p <= Len(v) /\ q > p + 1 /\ q <= Len(v)
        THEN <<p, q>> ELSE <<0, 0>>

\* the id class of REF_RE: [\w:.\-~]
isrefchar(c) == isword(c) \/ c \in {ord(":"), ord("."), ord("-"), ord("~")}

RECURSIVE RefIdEnd(_, _)
RefIdEnd(s, i) == IF i > Len(s) \/ ~isrefchar(s[i]) THEN i ELSE RefIdEnd(s, i + 1)

\* REF_RE.match(value): @([\w:.\-~]*)(?: "([^"]+)")?
RefDecode(v) ==
    LET a == RefIdEnd(v, 2)
        q == Find(v, ord("\""), a + 2)
        has_dis == /\ At(v, a) = ord(" ") /\ At(v, a + 1) = ord("\"")
                   /\ q > a + 2 /\ q <= Len(v)
    IN  <<"Ref", PyStr(Slice(v, 2, a - 1)),
          IF has_dis THEN PyStr(Slice(v, a + 2, q - 1)) ELSE PyNone>>

\* XSTR_RE.match(value): (\w+)\("([^"]*)"\) -- <<open paren, closing quote>> or <<0, 0>>
XStrMatch(v) ==
    LET a == WordEnd(v, 1)
        q == Find(v, ord("\""), a + 2)
    IN  IF /\ a > 1 /\ At(v, a) = ord("(") /\ At(v, a + 1) = ord("\"")
           /\ q <= Len(v) /\ At(v, q + 1) = ord(")")
        THEN <<a, q>> ELSE <<0, 0>>

\* URI_RE.match(value): ^`([^`]*)`$
UriMatch(v) ==
    /\ Len(v) >= 2 /\ v[1] = ord("BACKTICK") /\ v[Len(v)] = ord("BACKTICK")
    /\ \A k \in 2..(Len(v) - 1) : v[k] # ord("BACKTICK")

\* the body of STR_RE from index i: (?:[^"\\]|\\[bfnrt\\"$]|\\[uU][0-9a-fA-F]{4})*"$
RECURSIVE StrBodyMatch(_, _)
StrBodyMatch(v, i) ==
    IF i > Len(v) THEN FALSE
    ELSE IF v[i] = ord("\"") THEN i = Len(v)
    ELSE IF v[i] = ord("\\") THEN
        IF At(v, i + 1) \in {ord("b"), ord("f"), ord("n"), ord("r"), ord("t"),
                             ord("\\"), ord("\""), ord("$")}
            THEN StrBodyMatch(v, i + 2)
        ELSE IF /\ At(v, i + 1) \in {ord("u"), ord("U")}
                /\ i + 5 <= Len(v)
                /\ \A k \in (i + 2)..(i + 5) : ishex(v[k])
            THEN StrBodyMatch(v, i + 6)
        ELSE FALSE
    ELSE StrBodyMatch(v, i + 1)

\* STR_RE.match(value)
StrMatch(v) == v # <<>> /\ v[1] = ord("\"") /\ StrBodyMatch(v, 2)

\* a constructor (its leading fields in head) applied to an _unescape result
\* that may have raised
Wrap(rule, r, head) ==
    IF IsOk(r) THEN <<"ok", rule, head \o <<PyStr(r[2])>>>> ELSE r

NotUnderscore(c) == c # ord("_")

\* rule 13: Number(num), or Quantity(num, unit) when there is a unit
Quantity(num, unit) ==
    IF unit # <<>> THEN <<"Quantity", num, PyStr(unit)>> ELSE num

\* rule 13: the Number or Quantity of a NUMBER_RE match ending group 1 before c
NumberDecode(v, c) ==
    Quantity(float(SelectSeq(Slice(v, 1, c - 1), NotUnderscore))[2], Slice(v, c, Len(v)))

\* rule 5: Coordinate(float(lat), float(lng)), either float() may raise
Coordinate(lat, lng) ==
    IF ~IsOk(lat) THEN lat
    ELSE IF ~IsOk(lng) THEN lng
    ELSE <<"ok", "Coordinate", <<"Coordinate", lat[2], lng[2]>>>>

\* rule 5 on a COORD_RE match cm = <<comma, close>>
CoordDecode(v, cm) ==
    Coordinate(float(Slice(v, 3, cm[1] - 1)), float(Slice(v, cm[1] + 1, cm[2] - 1)))

\* rule 8 on an XSTR_RE match xm = <<open paren, closing quote>>
XStrDecode(v, xm) ==
    Wrap("ExtendedString", _unescape(Slice(v, xm[1] + 2, xm[2] - 1), FALSE),
         <<"XStr", PyStr(Slice(v, 1, xm[1] - 1))>>)

\* rule 10: the text of a string, _unescape result u may have raised
StrDecode(u) ==
    IF IsOk(u) THEN <<"ok", "String", PyStr(u[2])>> ELSE u

\* rules 11 and 12: a conversion r that may have raised
Converted(rule, r) ==
    IF IsOk(r) THEN <<"ok", rule, r[2]>> ELSE r

\* rules 13 and 14, nm the outcome of NUMBER_RE.match
NumberOrOpaque(value, nm) ==
    IF nm[1] = "match" THEN <<"ok", "Number", NumberDecode(value, nm[2])>>
    ELSE <<"ok", "opaque", PyStr(value)>>

\* lines 75-180 on the stripped value, with the rule that decided:
\* <<"ok", rule, value>> or <<"raise", reason>>
DecodeStripped(value) ==
    IF value = <<>> THEN <<"ok", "empty", PyNone>>
    ELSE IF \/ startswith(value, Str(<<"[">>)) \/ startswith(value, Str(<<"{">>))
            \/ startswith(value, Str(<<"<", "<">>))
        THEN Raise("ValueError")
    ELSE IF value = Str(<<"M">>) THEN <<"ok", "singleton", MARKER>>
    ELSE IF value = Str(<<"N">>) THEN <<"ok", "singleton", PyNone>>
    ELSE IF value = Str(<<"N", "A">>) THEN <<"ok", "singleton", NA>>
    ELSE IF value = Str(<<"R">>) THEN <<"ok", "singleton", REMOVE>>
    ELSE IF value = Str(<<"T">>) THEN <<"ok", "singleton", <<"bool", TRUE>>>>
    ELSE IF value = Str(<<"F">>) THEN <<"ok", "singleton", <<"bool", FALSE>>>>
    ELSE IF value = Str(<<"I", "N", "F">>) THEN <<"ok", "special", <<"inf">>>>
    ELSE IF value = Str(<<"-", "I", "N", "F">>) THEN <<"ok", "special", <<"-inf">>>>
    ELSE IF value = Str(<<"N", "a", "N">>) THEN <<"ok", "special", <<"nan">>>>
    ELSE IF startswith(value, Str(<<"C", "(">>)) /\ CoordMatch(value)[1] # 0
        THEN CoordDecode(value, CoordMatch(value))
    ELSE IF startswith(value, Str(<<"@">>)) THEN <<"ok", "Reference", RefDecode(value)>>
    ELSE IF /\ startswith(value, Str(<<"B", "i", "n", "(">>))
            /\ Find(value, ord(")"), 5) <= Len(value)
        THEN <<"ok", "Binary", <<"Bin", PyStr(Slice(value, 5, Find(value, ord(")"), 5) - 1))>>>>
    ELSE IF /\ Contains(value, Str(<<"(">>)) /\ value[Len(value)] = ord(")")
            /\ ~startswith(value, Str(<<"C", "(">>)) /\ XStrMatch(value)[1] # 0
        THEN XStrDecode(value, XStrMatch(value))
    ELSE IF startswith(value, Str(<<"BACKTICK">>)) /\ UriMatch(value)
        THEN Wrap("Uri", _unescape(Slice(value, 2, Len(value) - 1), TRUE), <<"Uri">>)
    ELSE IF startswith(value, Str(<<"\"">>)) /\ StrMatch(value)
        THEN StrDecode(_unescape(Slice(value, 2, Len(value) - 1), FALSE))
    ELSE IF /\ Contains(value, Str(<<"T">>))
            /\ (isdigit(value[1]) \/ value[1] = ord("-"))
            /\ DateTimeShape(value)
        THEN Converted("DateTime", DateTimeDecode(value))
    ELSE IF DateShape(value, 1) /\ Len(value) = 10
        THEN Converted("Date", DateDecode(value))
    ELSE IF TimeShape(value) THEN Converted("Time", TimeDecode(value))
    ELSE NumberOrOpaque(value, NumberMatch(value))

\* _parse_scalar with the rule that decided; line 73: value = value.strip()
DecodeScalar(raw) == DecodeStripped(strip(raw))

\* the value of a decoding, or the exception it raised
Decoded(r) == IF IsOk(r) THEN Ok(r[3]) ELSE r

_parse_scalar(value) == Decoded(DecodeScalar(value))

(***************************************************************************)
(* _split_csv_values                                                       *)
(***************************************************************************)
\* a last field is appended only when it has characters
SplitFinishNoTrailing(line, values, current) ==
    IF current # <<>> THEN Append(values, strip(current)) ELSE values

\* lines 228-231: the last field, also after a trailing comma
SplitFinish(line, values, current) ==
    IF current # <<>> \/ (line # <<>> /\ line[Len(line)] = ord(","))
    THEN Append(values, strip(current)) ELSE values

\* the while loop from (1-based) index i, then the append after it
RECURSIVE SplitLoop(_, _, _, _, _, _, _, _)
SplitLoop(line, i, values, current, in_string, in_uri, escape_next, paren_depth) ==
    IF i > Len(line) THEN SplitFinish(line, values, current)
    ELSE
        LET c == line[i]
        IN  IF escape_next THEN
                SplitLoop(line, i + 1, values, Append(current, c),
                          in_string, in_uri, FALSE, paren_depth)
            ELSE IF c = ord("\\") /\ (in_string \/ in_uri) THEN
                SplitLoop(line, i + 1, values, Append(current, c),
                          in_string, in_uri, TRUE, paren_depth)
            ELSE IF c = ord("\"") /\ ~in_uri THEN
                SplitLoop(line, i + 1, values, Append(current, c),
                          ~in_string, in_uri, FALSE, paren_depth)
            ELSE IF c = ord("BACKTICK") /\ ~in_string THEN
                SplitLoop(line, i + 1, values, Append(current, c),
                          in_string, ~in_uri, FALSE, paren_depth)
            ELSE IF c = ord("(") /\ ~in_string /\ ~in_uri THEN
                SplitLoop(line, i + 1, values, Append(current, c),
                          in_string, in_uri, FALSE, paren_depth + 1)
            ELSE IF c = ord(")") /\ ~in_string /\ ~in_uri THEN
                SplitLoop(line, i + 1, values, Append(current, c),
                          in_string, in_uri, FALSE, paren_depth - 1)
            ELSE IF c = ord(",") /\ ~in_string /\ ~in_uri /\ paren_depth = 0 THEN
                SplitLoop(line, i + 1, Append(values, strip(current)), <<>>,
                          in_string, in_uri, FALSE, paren_depth)
            ELSE
                SplitLoop(line, i + 1, values, Append(current, c),
                          in_string, in_uri, FALSE, paren_depth)

_split_csv_values(line) == SplitLoop(line, 1, <<>>, <<>>, FALSE, FALSE, FALSE, 0)

(***************************************************************************)
(* _parse_meta                                                             *)
(***************************************************************************)
\* SortableDict / dict: a sequence of <<key, value>>; d[key] = value keeps the
\* place of a key already there
DictSet(d, key, value) ==
    IF \E k \in 1..Len(d) : d[k][1] = key
    THEN [k \in 1..Len(d) |-> IF d[k][1] = key THEN <<key, value>> ELSE d[k]]
    ELSE Append(d, <<key, value>>)

\* re.match(r'^[a-z][a-zA-Z0-9_]*$', name)
TagNameOk(name) ==
    /\ name # <<>>
    /\ islower(name[1])
    /\ \A k \in 2..Len(name) : isword(name[k])

\* "if val_str:" of lines 282-287 and 296-300: the item a token adds, if any
MetaItems(items, current_key, val_str) ==
    IF val_str = <<>> THEN items
    ELSE IF current_key # PyNone /\ current_key[2] # <<>>
        THEN Append(items, <<"pair", current_key[2], val_str>>)
    ELSE Append(items, <<"bare", val_str>>)

\* current_key after the item of a token was added (line 285)
MetaKeyAfter(current_key, val_str) ==
    IF val_str # <<>> /\ current_key # PyNone /\ current_key[2] # <<>>
    THEN PyNone ELSE current_key

\* the while loop of _parse_meta from (1-based) index i, then "Handle last item"
RECURSIVE MetaLoop(_, _, _, _, _, _, _, _)
MetaLoop(meta_str, i, items, current_key, current_val, in_quote, in_uri, escape_next) ==
    IF i > Len(meta_str) THEN MetaItems(items, current_key, strip(current_val))
    ELSE
        LET c == meta_str[i]
        IN  IF escape_next THEN
                MetaLoop(meta_str, i + 1, items, current_key, Append(current_val, c),
                         in_quote, in_uri, FALSE)
            ELSE IF c = ord("\\") THEN
                MetaLoop(meta_str, i + 1, items, current_key, Append(current_val, c),
                         in_quote, in_uri, TRUE)
            ELSE IF c = ord("\"") /\ ~in_uri THEN
                MetaLoop(meta_str, i + 1, items, current_key, Append(current_val, c),
                         ~in_quote, in_uri, FALSE)
            ELSE IF c = ord("BACKTICK") /\ ~in_quote THEN
                MetaLoop(meta_str, i + 1, items, current_key, Append(current_val, c),
                         in_quote, ~in_uri, FALSE)
            ELSE IF c = ord(":") /\ ~in_quote /\ ~in_uri /\ current_key = PyNone THEN
                MetaLoop(meta_str, i + 1, items, PyStr(strip(current_val)), <<>>,
                         in_quote, in_uri, FALSE)
            ELSE IF c = ord(" ") /\ ~in_quote /\ ~in_uri THEN
                MetaLoop(meta_str, i + 1,
                         MetaItems(items, current_key, strip(current_val)),
                         MetaKeyAfter(current_key, strip(current_val)), <<>>,
                         in_quote, in_uri, FALSE)
            ELSE
                MetaLoop(meta_str, i + 1, items, current_key, Append(current_val, c),
                         in_quote, in_uri, FALSE)

\* "Convert to dict": the for loop over items[k..], meta built so far
RECURSIVE MetaConvert(_, _, _)
RECURSIVE MetaPair(_, _, _, _)
MetaConvert(items, k, meta) ==
    IF k > Len(items) THEN Ok(meta)
    ELSE IF ~TagNameOk(items[k][2]) THEN Raise("ValueError")
    ELSE IF items[k][1] = "pair"
        THEN MetaPair(items, k, meta, _parse_scalar(items[k][3]))
    ELSE MetaConvert(items, k + 1, DictSet(meta, items[k][2], MARKER))

\* line 309: meta[key] = _parse_scalar(val), v its outcome
MetaPair(items, k, meta, v) ==
    IF IsOk(v) THEN MetaConvert(items, k + 1, DictSet(meta, items[k][2], v[2])) ELSE v

_parse_meta(meta_str) ==
    IF meta_str = <<>> THEN Ok(<<>>)
    ELSE IF isupper(meta_str[1]) THEN Raise("ValueError")
    ELSE MetaConvert(MetaLoop(meta_str, 1, <<>>, PyNone, <<>>, FALSE, FALSE, FALSE), 1, <<>>)

(***************************************************************************)
(* Calls of the pure functions: the argument is chosen by Init, the action *)
(* applies the function.                                                   *)
(***************************************************************************)
None == <<"none">>

IdleGrid ==
    /\ lines = <<>>
    /\ line_idx = 0
    /\ version = None
    /\ grid_meta = None
    /\ columns = None
    /\ grid = None
    /\ rules = <<>>
    /\ err = ""
    /\ slow_calls = <<>>

MaxUnescapeLen == 6

\* backslash, u, b (a hex digit and a control escape), # and a plain character
UnescapeAlphabet == {ord("\\"), ord("u"), ord("b"), ord("#"), ord("z")}

InitUnescape ==
    /\ pc = "_unescape"
    /\ arg \in Texts(UnescapeAlphabet, MaxUnescapeLen)
    /\ uri \in BOOLEAN
    /\ ret = None
    /\ IdleGrid

CallUnescape ==
    /\ pc = "_unescape"
    /\ ret' = _unescape(arg, uri)
    /\ pc' = "return"
    /\ UNCHANGED <<arg, uri, gridvars>>

SpecUnescape == InitUnescape /\ [][CallUnescape]_vars

\* The scan C8 describes, from index i: backslash + u/U + 4 hex digits is one
\* code point, backslash + b/f/n/r/t a control character, backslash + any other
\* character that character (with its backslash for # in URI mode).
RECURSIVE DescribedScan(_, _, _)
DescribedScan(s, is_uri, i) ==
    IF i > Len(s) THEN <<>>
    ELSE IF s[i] = ord("\\") /\ i + 1 <= Len(s) THEN
        LET c == s[i + 1]
        IN  IF /\ c \in {ord("u"), ord("U")}
               /\ i + 5 <= Len(s)
               /\ \A k \in (i + 2)..(i + 5) : ishex(s[k])
            THEN <<HexValue(Slice(s, i + 2, i + 5))>> \o DescribedScan(s, is_uri, i + 6)
            ELSE IF c = ord("b") THEN <<8>> \o DescribedScan(s, is_uri, i + 2)
            ELSE IF c = ord("f") THEN <<12>> \o DescribedScan(s, is_uri, i + 2)
            ELSE IF c = ord("n") THEN <<10>> \o DescribedScan(s, is_uri, i + 2)
            ELSE IF c = ord("r") THEN <<13>> \o DescribedScan(s, is_uri, i + 2)
            ELSE IF c = ord("t") THEN <<9>> \o DescribedScan(s, is_uri, i + 2)
            ELSE IF is_uri /\ c = ord("#")
                THEN <<ord("\\"), c>> \o DescribedScan(s, is_uri, i + 2)
            ELSE <<c>> \o DescribedScan(s, is_uri, i + 2)
    ELSE <<s[i]>> \o DescribedScan(s, is_uri, i + 1)

\* C8: _unescape returns its input unchanged when it holds no backslash, and
\* otherwise the result of the described left-to-right scan.
C8_UnescapeIsDescribedScan ==
    pc = "return" =>
        ret = Ok(IF Contains(arg, <<ord("\\")>>) THEN DescribedScan(arg, uri, 1) ELSE arg)

(***************************************************************************)
(* _split_csv_values as a call                                             *)
(***************************************************************************)
MaxSplitLen == 5

SplitAlphabet ==
    {ord("a"), ord(","), ord("\""), ord("BACKTICK"), ord("("), ord(")"), ord("\\"), ord(" ")}

\* a,"b,c",d
SplitExample == Str(<<"a", ",", "\"", "b", ",", "c", "\"", ",", "d">>)

InitSplit ==
    /\ pc = "_split_csv_values"
    /\ arg \in Texts(SplitAlphabet, MaxSplitLen) \cup {SplitExample}
    /\ uri = FALSE
    /\ ret = None
    /\ IdleGrid

CallSplit ==
    /\ pc = "_split_csv_values"
    /\ ret' = Ok(_split_csv_values(arg))
    /\ pc' = "return"
    /\ UNCHANGED <<arg, uri, gridvars>>

SpecSplit == InitSplit /\ [][CallSplit]_vars

\* The trackers C4 describes after the first i characters of the line:
\* <<inside a quoted string, inside a URI, next character inert, paren depth>>
RECURSIVE Trackers(_, _)
Trackers(line, i) ==
    IF i = 0 THEN <<FALSE, FALSE, FALSE, 0>>
    ELSE
        LET t == Trackers(line, i - 1)
            c == line[i]
        IN  IF t[3] THEN <<t[1], t[2], FALSE, t[4]>>
            ELSE IF c = ord("\\") THEN <<t[1], t[2], t[1] \/ t[2], t[4]>>
            ELSE IF c = ord("\"") THEN <<IF t[2] THEN t[1] ELSE ~t[1], t[2], FALSE, t[4]>>
            ELSE IF c = ord("BACKTICK") THEN <<t[1], IF t[1] THEN t[2] ELSE ~t[2], FALSE, t[4]>>
            ELSE IF t[1] \/ t[2] THEN t
            ELSE IF c = ord("(") THEN <<FALSE, FALSE, FALSE, t[4] + 1>>
            ELSE IF c = ord(")") THEN <<FALSE, FALSE, FALSE, t[4] - 1>>
            ELSE t

\* the places of the separator commas of a line
Separators(line) ==
    {i \in 1..Len(line) :
        /\ line[i] = ord(",")
        /\ Trackers(line, i - 1) = <<FALSE, FALSE, FALSE, 0>>}

\* the k-th smallest element of a set of naturals
Nth(S, k) == CHOOSE x \in S : Cardinality({y \in S : y < x}) = k - 1

\* the trimmed substrings between the separator commas
FieldsBetween(line) ==
    LET S == Separators(line)
        n == Cardinality(S)
        from(k) == IF k = 1 THEN 1 ELSE Nth(S, k - 1) + 1
        to(k) == IF k = n + 1 THEN Len(line) ELSE Nth(S, k) - 1
    IN  [k \in 1..(n + 1) |-> strip(Slice(line, from(k), to(k)))]

\* C4: a non-empty line yields the trimmed substrings between its separator
\* commas, in order: one field more than it has separators, the last one empty
\* after a trailing separator; the empty line yields no field.
C4_SplitAtSeparators ==
    pc = "return" =>
        /\ arg # <<>> =>
            /\ ret = Ok(FieldsBetween(arg))
            /\ Len(ret[2]) = Cardinality(Separators(arg)) + 1
        /\ arg = <<>> => ret = Ok(<<>>)
        /\ arg = SplitExample =>
            ret = Ok(<<Str(<<"a">>), Str(<<"\"", "b", ",", "c", "\"">>), Str(<<"d">>)>>)

\* a line with a quoted comma, a separator and a trailing separator was split
C4_Witness ==
    /\ pc = "return"
    /\ Cardinality(Separators(arg)) >= 1
    /\ \E i \in 1..Len(arg) : arg[i] = ord(",") /\ i \notin Separators(arg)
    /\ arg[Len(arg)] = ord(",") /\ Len(arg) \in Separators(arg)
    /\ ret[2][Len(ret[2])] = <<>>

(***************************************************************************)
(* _parse_meta as a call                                                   *)
(***************************************************************************)
MaxMetaLen == 4

MetaAlphabet == {ord("a"), ord("F"), ord(":"), ord(" "), ord("\""), ord("5")}

\* Foo, foo, foo:5
MetaExamples ==
    {Str(<<"F", "o", "o">>), Str(<<"f", "o", "o">>), Str(<<"f", "o", "o", ":", "5">>)}

InitMeta ==
    /\ pc = "_parse_meta"
    /\ arg \in Texts(MetaAlphabet, MaxMetaLen) \cup MetaExamples
    /\ uri = FALSE
    /\ ret = None
    /\ IdleGrid

CallMeta ==
    /\ pc = "_parse_meta"
    /\ ret' = _parse_meta(arg)
    /\ pc' = "return"
    /\ UNCHANGED <<arg, uri, gridvars>>

SpecMeta == InitMeta /\ [][CallMeta]_vars

\* the places of a tag list that lie outside every quoted string and URI
Outside(text) == {i \in 1..Len(text) : ~Trackers(text, i - 1)[1] /\ ~Trackers(text, i - 1)[2]}

\* the space-separated tokens of text[i..]: the non-empty pieces between the
\* spaces outside quotes and URIs
RECURSIVE MetaTokens(_, _)
MetaTokens(text, i) ==
    IF i > Len(text) THEN <<>>
    ELSE
        LET stops == {j \in Outside(text) : j >= i /\ text[j] = ord(" ")}
            j == IF stops = {} THEN Len(text) + 1 ELSE Nth(stops, 1)
        IN  (IF j > i THEN <<<<i, j - 1>>>> ELSE <<>>) \o MetaTokens(text, j + 1)

\* the place of the name:value separator of the token text[a..b], or 0
TokenColon(text, a, b) ==
    LET colons == {j \in Outside(text) : j >= a /\ j <= b /\ text[j] = ord(":")}
    IN  IF colons = {} THEN 0 ELSE Nth(colons, 1)

TokenName(text, tok) ==
    LET p == TokenColon(text, tok[1], tok[2])
    IN  IF p = 0 THEN Slice(text, tok[1], tok[2]) ELSE Slice(text, tok[1], p - 1)

\* the entry C5 gives a token: name -> Marker, or name -> decoding of the value
TokenEntry(text, tok) ==
    LET p == TokenColon(text, tok[1], tok[2])
    IN  IF p = 0 THEN Ok(<<TokenName(text, tok), MARKER>>)
        ELSE LET v == _parse_scalar(Slice(text, p + 1, tok[2]))
             IN  IF IsOk(v) THEN Ok(<<TokenName(text, tok), v[2]>>) ELSE v

\* C5: _parse_meta fails when a token's tag name breaks the tag-name rule, and
\* what it returns has one entry per space-separated token, in token order:
\* name -> Marker for a bare token, name -> decoded value for name:value.
C5_MetaEntryPerToken ==
    pc = "return" =>
        LET toks == MetaTokens(arg, 1)
        IN  /\ (\E k \in 1..Len(toks) : ~TagNameOk(TokenName(arg, toks[k]))) => ~IsOk(ret)
            /\ IsOk(ret) =>
                /\ Len(ret[2]) = Len(toks)
                /\ \A k \in 1..Len(toks) : TokenEntry(arg, toks[k]) = Ok(ret[2][k])
                /\ \A k \in 1..Len(ret[2]) : TagNameOk(ret[2][k][1])
            /\ arg = Str(<<"F", "o", "o">>) => ~IsOk(ret)
            /\ arg = Str(<<"f", "o", "o">>) => ret = Ok(<<<<arg, MARKER>>>>)
            /\ arg = Str(<<"f", "o", "o", ":", "5">>) =>
                ret = Ok(<<<<Str(<<"f", "o", "o">>), Float(5, 0)>>>>)

(***************************************************************************)
(* parse_grid_fast: the steps                                              *)
(***************************************************************************)
HeaderSample == 200

EscapedBacktick == <<ord("\\"), ord("BACKTICK")>>

\* line 341: re.search(r'T\d{2}:\d{2}:\d{2}[^,\n]*[+-]\d{2}:\d{2}\s+[A-Z][a-zA-Z_]+', first_line)
TzNameSearch(line) ==
    \E i \in 1..Len(line) :
        /\ line[i] = ord("T")
        /\ ClockShape(line, i + 1)
        /\ \E j \in (i + 9)..Len(line) :
            /\ \A k \in (i + 9)..(j - 1) : line[k] \notin {ord(","), ord("\n")}
            /\ OffsetShape(line, j)
            /\ \E w \in (j + 7)..Len(line) :
                /\ \A k \in (j + 6)..(w - 1) : isspace(line[k])
                /\ isupper(line[w])
                /\ (isalpha(At(line, w + 1)) \/ At(line, w + 1) = ord("_"))

\* the whole-text checks without the check for "{"
FastGuardNoBrace(grid_str) ==
    LET header_sample == Slice(grid_str, 1, Min(HeaderSample, Len(grid_str)))
        first_line == split(grid_str, ord("\n"))[1]
    IN  IF Contains(grid_str, Str(<<"<", "<">>)) THEN "Complex grid"
        ELSE IF Contains(header_sample, Str(<<"[">>)) THEN "Complex grid (list)"
        ELSE IF TzNameSearch(first_line) THEN "Complex metadata with timezone names"
        ELSE IF Contains(first_line, EscapedBacktick) THEN "Complex URI escaping"
        ELSE ""

\* lines 325-345: the exception of the whole-text checks, "" when there is none
FastGuard(grid_str) ==
    LET header_sample == Slice(grid_str, 1, Min(HeaderSample, Len(grid_str)))
        first_line == split(grid_str, ord("\n"))[1]
    IN  IF Contains(grid_str, Str(<<"<", "<">>)) \/ Contains(grid_str, Str(<<"{">>))
            THEN "Complex grid"
        ELSE IF Contains(header_sample, Str(<<"[">>)) THEN "Complex grid (list)"
        ELSE IF TzNameSearch(first_line) THEN "Complex metadata with timezone names"
        ELSE IF Contains(first_line, EscapedBacktick) THEN "Complex URI escaping"
        ELSE ""

\* VERSION_RE.match(line): ^ver:"([^"]+)" -- the place of the closing quote, or 0
VersionEnd(line) ==
    LET q == Find(line, ord("\""), 6)
    IN  IF startswith(line, Str(<<"v", "e", "r", ":", "\"">>)) /\ q > 6 /\ q <= Len(line)
        THEN q ELSE 0

\* lines 358-360: <<version, grid_meta>>, meta the outcome of _parse_meta
VersionAndMeta(version_str, meta) ==
    IF ~IsOk(meta) THEN Raise("Invalid grid metadata")
    ELSE Ok(<<<<"Version", version_str>>, meta[2]>>)

\* lines 354-360 on a first line whose version match ends at q (0: no match)
VersionLine(first, q) ==
    IF q = 0 THEN Raise("Invalid grid: missing version on line 1")
    ELSE VersionAndMeta(Slice(first, 6, q - 1),
                        _parse_meta(strip(Slice(first, q + 1, Len(first)))))

\* lines 353-362: <<version, grid_meta>> of line 1
ParseVersionLine(lns) == VersionLine(lns[1], VersionEnd(lns[1]))

\* line 371: re.search(r'\s[A-Z][A-Z]+', col_line)
ColumnMetaSearch(col_line) ==
    \E i \in 1..(Len(col_line) - 2) :
        isspace(col_line[i]) /\ isupper(col_line[i + 1]) /\ isupper(col_line[i + 2])

\* lines 381-383: (col_name, col_meta), col_meta the outcome of _parse_meta
ColumnWithMeta(col_name, col_meta) ==
    IF IsOk(col_meta) THEN Ok(<<col_name, col_meta[2]>>)
    ELSE Raise("Invalid column metadata")

\* lines 379-387 on the stripped field, p the place of its first space
ColumnOf(col_str, p) ==
    IF p > Len(col_str) THEN Ok(<<col_str, <<>>>>)
    ELSE ColumnWithMeta(Slice(col_str, 1, p - 1),
                        _parse_meta(Slice(col_str, p + 1, Len(col_str))))

\* lines 378-387: (col_name, col_meta) of one column field
ParseColumn(part) == ColumnOf(strip(part), Find(strip(part), ord(" "), 1))

\* lines 376-387: the for loop over col_parts[k..]
RECURSIVE ColumnLoop(_, _, _)
RECURSIVE ColumnAppend(_, _, _, _)
ColumnLoop(col_parts, k, cols) ==
    IF k > Len(col_parts) THEN Ok(cols)
    ELSE ColumnAppend(col_parts, k, cols, ParseColumn(col_parts[k]))

\* line 387: columns.append((col_name, col_meta)), c the outcome for field k
ColumnAppend(col_parts, k, cols, c) ==
    IF IsOk(c) THEN ColumnLoop(col_parts, k + 1, Append(cols, c[2])) ELSE c

\* lines 364-387: the column list of line 2
ParseColumnLine(lns) ==
    IF 1 >= Len(lns) THEN Raise("Invalid grid: missing column headers")
    ELSE IF ColumnMetaSearch(lns[2]) THEN Raise("Invalid column metadata - use slow parser")
    ELSE ColumnLoop(_split_csv_values(lns[2]), 1, <<>>)

\* line 395
ColNames(cols) == [k \in 1..Len(cols) |-> cols[k][1]]

\* lines 411-414: a row value the row check lets pass
RowValueOk(raw) ==
    LET val == strip(raw)
    IN  \/ val = <<>>
        \/ val[1] \in {ord("\""), ord("BACKTICK"), ord("@"), ord("M"), ord("N"), ord("T"),
                       ord("F"), ord("R"), ord("C"), ord("B")}
        \/ isdigit(val[1])
        \/ IsSign(val[1])
        \/ (isalpha(val[1]) \/ val[1] = ord("_")) /\ At(val, WordEnd(val, 2)) = ord("(")
        \/ val \in {Str(<<"I", "N", "F">>), Str(<<"-", "I", "N", "F">>),
                    Str(<<"N", "a", "N">>), Str(<<"N", "A">>)}

\* lines 419-420: values padded with '' up to n
Pad(values, n) ==
    [k \in 1..(IF Len(values) < n THEN n ELSE Len(values)) |->
        IF k <= Len(values) THEN values[k] ELSE <<>>]

\* lines 423-428: the for loop over the columns i.., row_data built so far;
\* used records the rule that decoded each column
RECURSIVE RowLoop(_, _, _, _, _)
RECURSIVE RowSet(_, _, _, _, _, _)
RowLoop(col_names, values, i, row_data, used) ==
    IF i > Len(col_names) THEN <<"ok", row_data, used>>
    ELSE IF i <= Len(values)
        THEN RowSet(col_names, values, i, row_data, used, DecodeScalar(values[i]))
    ELSE RowSet(col_names, values, i, row_data, used, <<"ok", "absent", PyNone>>)

\* lines 426 and 428: row_data[col_name] = ..., d the outcome for column i
RowSet(col_names, values, i, row_data, used, d) ==
    IF IsOk(d)
    THEN RowLoop(col_names, values, i + 1,
                 DictSet(row_data, col_names[i], d[3]), Append(used, d[2]))
    ELSE d

\* lines 408-428 on the fields of a line
RowOfValues(col_names, values) ==
    IF \E k \in 1..Len(values) : ~RowValueOk(values[k])
        THEN Raise("Malformed value in row")
    ELSE RowLoop(col_names, Pad(values, Len(col_names)), 1, <<>>, <<>>)

\* lines 399-428 on the stripped line
RowOfLine(col_names, line) ==
    IF line = <<>> THEN <<"blank">>
    ELSE IF Contains(line, EscapedBacktick) THEN Raise("Complex URI escaping in row")
    ELSE RowOfValues(col_names, _split_csv_values(line))

\* lines 397-428, one pass of the while loop: <<"blank">>, the exception raised,
\* or <<"ok", row_data, rules used>>
ParseRowLine(col_names, rawline) == RowOfLine(col_names, strip(rawline))

\* line 392: the Grid, as the arguments of its construction followed by the
\* rows of the append calls made on it
NewGrid(ver, meta, cols) == <<"Grid", ver, meta, cols, <<>>>>

\* the row put before the rows already there
GridPrepend(g, row_data) == <<g[1], g[2], g[3], g[4], <<row_data>> \o g[5]>>

\* line 430: grid.append(row_data)
GridAppend(g, row_data) == <<g[1], g[2], g[3], g[4], Append(g[5], row_data)>>

\* lines 396-431 from line k (1-based): <<"ok", grid, rules>> or the exception
RECURSIVE FastRows(_, _, _, _)
RECURSIVE FastRow(_, _, _, _, _)
FastRows(lns, k, g, used) ==
    IF k > Len(lns) THEN <<"ok", g, used>>
    ELSE FastRow(lns, k, g, used, ParseRowLine(ColNames(g[4]), lns[k]))

\* lines 399-431: what the loop does with the outcome r of line k
FastRow(lns, k, g, used, r) ==
    IF r[1] = "blank" THEN FastRows(lns, k + 1, g, used)
    ELSE IF IsOk(r) THEN FastRows(lns, k + 1, GridAppend(g, r[2]), Append(used, r[3]))
    ELSE r

\* lines 353-433, the outcomes v of the version line and c of the column line given
FastGrid(lns, v, c) ==
    IF ~IsOk(v) THEN v
    ELSE IF ~IsOk(c) THEN c
    ELSE FastRows(lns, 3, NewGrid(v[2][1], v[2][2], c[2]), <<>>)

\* lines 347-433 on the lines of the text
FastLines(lns) == FastGrid(lns, ParseVersionLine(lns), ParseColumnLine(lns))

\* lines 325-433, guard the outcome of the whole-text checks
FastGuarded(grid_str, guard) ==
    IF guard # "" THEN Raise(guard) ELSE FastLines(split(grid_str, ord("\n")))

\* parse_grid_fast as one function: <<"ok", grid, rules>> or the exception
parse_grid_fast(grid_str) == FastGuarded(grid_str, FastGuard(grid_str))

(***************************************************************************)
(* The fallback, hszinc.zincparser.parse_grid: the full-grammar parser.    *)
(* Where the fast path returns a grid of typed scalars under tag-named     *)
(* columns, it returns that grid; a token that is no scalar of the format  *)
(* or a column name that is no tag name is a parse error; every other text *)
(* has the full grammar's result, whatever it is.                          *)
(***************************************************************************)
FullGrammar(grid_str, f) ==
    IF ~IsOk(f) THEN <<"full grammar", grid_str>>
    ELSE IF /\ \A r \in 1..Len(f[3]) : \A k \in 1..Len(f[3][r]) : f[3][r][k] # "opaque"
            /\ \A k \in 1..Len(f[2][4]) : TagNameOk(f[2][4][k][1])
        THEN Ok(f[2])
    ELSE Raise("ZincParseException")

parse_grid_slow(grid_str) == FullGrammar(grid_str, parse_grid_fast(grid_str))

(***************************************************************************)
(* parse_grid: the fast path step by step, then the fallback               *)
(***************************************************************************)
MaxRows == 2

\* first lines: plain, with tags, an invalid tag, no version, an escaped backtick, a list, an offset with a zone name
FirstLines ==
    {Str(<<"v", "e", "r", ":", "\"", "3", ".", "0", "\"">>),    \* ver:"3.0"
     Str(<<"v", "e", "r", ":", "\"", "3", ".", "0", "\"", " ", "f", "o", "o", ":", "5",
                " ", "b", "a", "r">>),    \* ver:"3.0" foo:5 bar
     Str(<<"v", "e", "r", ":", "\"", "3", ".", "0", "\"", " ", "F", "o", "o">>),    \* ver:"3.0" Foo
     Str(<<"v", "e", "r", ":", "3", ".", "0">>),    \* ver:3.0
     Str(<<"v", "e", "r", ":", "\"", "3", ".", "0", "\"", " ", "a", ":", "BACKTICK",
                "\\", "BACKTICK", "BACKTICK">>),    \* ver:"3.0" a:<URI with an escaped backtick>
     Str(<<"v", "e", "r", ":", "\"", "3", ".", "0", "\"", " ", "a", ":", "[", "1", "]">>),    \* ver:"3.0" a:[1]
     Str(<<"v", "e", "r", ":", "\"", "3", ".", "0", "\"", " ", "t", ":", "2", "0", "2",
                "0", "-", "0", "1", "-", "0", "1", "T", "0", "0", ":", "0", "0", ":",
                "0", "0", "+", "0", "1", ":", "0", "0", " ", "U", "T", "C">>)}    \* ver:"3.0" t:2020-01-01T00:00:00+01:00 UTC

\* column lines: plain, a repeated name, four columns, column tags, upper-case tags
HeaderLines ==
    {Str(<<"a">>),    \* a
     Str(<<"a", ",", "b">>),    \* a,b
     Str(<<"a", ",", "a">>),    \* a,a
     Str(<<"a", ",", "b", ",", "c", ",", "d">>),    \* a,b,c,d
     Str(<<"a", " ", "d", "i", "s", ":", "\"", "x", "\"", ",", "b">>),    \* a dis:"x",b
     Str(<<"a", " ", "F", "O", "O", ",", "b">>),    \* a FOO,b
     Str(<<"a", " ", "D", "i", "s">>)}    \* a Dis

\* row lines: blank, typed values, a quoted comma, an undecodable word, a bare word, a bad coordinate, a dict, a nested grid, an escaped backtick, an empty field
RowLines ==
    {Str(<<>>),    \* the empty line
     Str(<<" ">>),    \* one space
     Str(<<"1", ",", "2">>),    \* 1,2
     Str(<<"M", ",", "\"", "a", ",", "b", "\"", ",", "3", " ">>),    \* M,"a,b",3 
     Str(<<"M", "x">>),    \* Mx
     Str(<<"x", "y", "z">>),    \* xyz
     Str(<<"C", "(", "a", ",", "b", ")">>),    \* C(a,b)
     Str(<<"1", ",", "{", "}">>),    \* 1,{}
     Str(<<"<", "<">>),    \* <<
     Str(<<"BACKTICK", "a", "\\", "BACKTICK", "b", "BACKTICK">>),    \* an escaped backtick inside a URI
     Str(<<",", "5">>)}    \* ,5

\* s1 + "\n" + s2 + ...
RECURSIVE Join(_)
Join(ls) ==
    IF Len(ls) = 1 THEN ls[1]
    ELSE ls[1] \o <<ord("\n")>> \o Join(Tail(ls))

GridTexts ==
    {Join(<<f>>) : f \in FirstLines}
    \cup {Join(<<f, h>> \o rs) :
            f \in FirstLines, h \in HeaderLines, rs \in UNION {[1..n -> RowLines] : n \in 0..MaxRows}}

Init ==
    /\ pc = "guard"
    /\ arg \in GridTexts
    /\ uri = FALSE
    /\ ret = None
    /\ IdleGrid

\* lines 325-345
CheckGuard ==
    /\ pc = "guard"
    /\ \E guard \in {FastGuard(arg)} :
        IF guard = "" THEN pc' = "version" /\ err' = err
        ELSE pc' = "except" /\ err' = guard
    /\ UNCHANGED <<arg, uri, ret, lines, line_idx, version, grid_meta, columns, grid, rules,
                   slow_calls>>

\* lines 347-362
ParseVersion ==
    /\ pc = "version"
    /\ lines' = split(arg, ord("\n"))
    /\ \E v \in {ParseVersionLine(lines')} :
        IF IsOk(v)
        THEN /\ version' = v[2][1]
             /\ grid_meta' = v[2][2]
             /\ line_idx' = 1
             /\ pc' = "columns"
             /\ err' = err
        ELSE /\ pc' = "except"
             /\ err' = v[2]
             /\ UNCHANGED <<version, grid_meta, line_idx>>
    /\ UNCHANGED <<arg, uri, ret, columns, grid, rules, slow_calls>>

\* lines 364-389
ParseColumns ==
    /\ pc = "columns"
    /\ \E c \in {ParseColumnLine(lines)} :
        IF IsOk(c)
        THEN /\ columns' = c[2]
             /\ line_idx' = 2
             /\ pc' = "create"
             /\ err' = err
        ELSE /\ pc' = "except"
             /\ err' = c[2]
             /\ UNCHANGED <<columns, line_idx>>
    /\ UNCHANGED <<arg, uri, ret, lines, version, grid_meta, grid, rules, slow_calls>>

\* lines 391-395
CreateGrid ==
    /\ pc = "create"
    /\ grid' = NewGrid(version, grid_meta, columns)
    /\ pc' = "rows"
    /\ UNCHANGED <<arg, uri, ret, lines, line_idx, version, grid_meta, columns, rules, err,
                   slow_calls>>

\* the outcome of the while-loop pass at line_idx
RowOutcome == ParseRowLine(ColNames(columns), lines[line_idx + 1])

\* lines 397-400
SkipBlankLine ==
    /\ pc = "rows"
    /\ line_idx < Len(lines)
    /\ RowOutcome[1] = "blank"
    /\ line_idx' = line_idx + 1
    /\ UNCHANGED <<pc, arg, uri, ret, lines, version, grid_meta, columns, grid, rules, err,
                   slow_calls>>

\* the row is appended, undecoded, before its checks raise
RaiseAfterAppend ==
    /\ pc = "rows"
    /\ line_idx < Len(lines)
    /\ \E r \in {RowOutcome} : r[1] = "raise" /\ err' = r[2]
    /\ grid' = GridAppend(grid, <<>>)
    /\ pc' = "except"
    /\ UNCHANGED <<arg, uri, ret, lines, line_idx, version, grid_meta, columns, rules,
                   slow_calls>>

\* lines 402-426: a row check or a scalar raises
RaiseInRow ==
    /\ pc = "rows"
    /\ line_idx < Len(lines)
    /\ \E r \in {RowOutcome} : r[1] = "raise" /\ err' = r[2]
    /\ pc' = "except"
    /\ UNCHANGED <<arg, uri, ret, lines, line_idx, version, grid_meta, columns, grid, rules,
                   slow_calls>>

\* lines 402-431
AppendRow ==
    /\ pc = "rows"
    /\ line_idx < Len(lines)
    /\ \E r \in {RowOutcome} :
        /\ r[1] = "ok"
        /\ grid' = GridAppend(grid, r[2])
        /\ rules' = Append(rules, r[3])
    /\ line_idx' = line_idx + 1
    /\ UNCHANGED <<pc, arg, uri, ret, lines, version, grid_meta, columns, err, slow_calls>>

\* lines 396, 433 and 443: the loop ends, the grid is returned
ReturnGrid ==
    /\ pc = "rows"
    /\ line_idx >= Len(lines)
    /\ ret' = Ok(grid)
    /\ pc' = "done"
    /\ UNCHANGED <<arg, uri, gridvars>>

\* the partial grid is returned when the fast path raised after creating it
FallbackUnlessGrid ==
    /\ pc = "except"
    /\ IF grid = None
       THEN slow_calls' = Append(slow_calls, arg) /\ ret' = parse_grid_slow(arg)
       ELSE slow_calls' = slow_calls /\ ret' = Ok(grid)
    /\ pc' = "done"
    /\ UNCHANGED <<arg, uri, lines, line_idx, version, grid_meta, columns, grid, rules, err>>

\* lines 444-448
Fallback ==
    /\ pc = "except"
    /\ slow_calls' = Append(slow_calls, arg)
    /\ ret' = parse_grid_slow(arg)
    /\ pc' = "done"
    /\ UNCHANGED <<arg, uri, lines, line_idx, version, grid_meta, columns, grid, rules, err>>

Next ==
    \/ CheckGuard
    \/ ParseVersion
    \/ ParseColumns
    \/ CreateGrid
    \/ SkipBlankLine
    \/ RaiseInRow
    \/ AppendRow
    \/ ReturnGrid
    \/ Fallback

Spec == Init /\ [][Next]_vars

(***************************************************************************)
(* Properties of parse_grid and parse_grid_fast                            *)
(***************************************************************************)
\* lines 398-400: a line the row loop does not skip
NonBlankLine(l) == strip(l) # <<>>

\* the non-blank lines among lines[3..upto], in source order
RowSource(lns, upto) == SelectSeq(SubSeq(lns, 3, upto), NonBlankLine)

\* row[key] of a row dict
DictGet(d, key) == d[CHOOSE k \in 1..Len(d) : d[k][1] = key][2]

\* the fast path ran to its return statement
FastReturned == pc = "done" /\ err = ""

\* C1: parse_grid returns the fast path's grid only when the fast path ran to
\* its end without raising; when the fast path raised anywhere, also after rows
\* were appended, the fallback was called exactly once, with the whole original
\* text, and its result is returned unchanged; it is never called otherwise.
C1_FallbackOnAnyFailure ==
    /\ pc # "done" => slow_calls = <<>>
    /\ pc = "done" =>
        IF err = ""
        THEN slow_calls = <<>> /\ line_idx = Len(lines) /\ ret = Ok(grid)
        ELSE slow_calls = <<arg>> /\ ret = parse_grid_slow(arg)

\* C1: a row was appended, a later line raised, the fallback gave the result
C1_Witness ==
    /\ pc = "done" /\ err = "ValueError"
    /\ grid # None /\ Len(grid[5]) = 1
    /\ slow_calls = <<arg>> /\ ret # Ok(grid)

\* C2: whenever the fast path returns a grid, the fallback's result for the
\* same text is that grid.
C2_FastEqualsFallback ==
    FastReturned => parse_grid_slow(arg) = ret

\* C3: in a returned grid the row of each row line has the declared column
\* names as its keys, and under the name of column i it holds the decoding of
\* field i of the line, Null when the line has fewer fields.
C3_RowEntryPerColumn ==
    FastReturned =>
        \A r \in 1..Len(grid[5]) :
            LET values == _split_csv_values(strip(RowSource(lines, Len(lines))[r]))
                col_names == ColNames(columns)
                row == grid[5][r]
            IN  /\ {row[k][1] : k \in 1..Len(row)} = {col_names[i] : i \in 1..Len(col_names)}
                /\ \A i \in 1..Len(col_names) :
                    DictGet(row, col_names[i]) =
                        IF i <= Len(values) THEN _parse_scalar(values[i])[2] ELSE PyNone

\* the rejections of the eligibility checks on the whole text and the header
WholeTextRejections ==
    {"Complex grid", "Complex grid (list)", "Complex metadata with timezone names",
     "Complex URI escaping", "Invalid column metadata - use slow parser"}

\* the rejections of the per-row eligibility checks
RowRejections == {"Complex URI escaping in row", "Malformed value in row"}

\* C6: no eligibility check, the per-row checks included, rejects the text
\* after the output grid was created.
C6_GuardBeforeGrid ==
    (pc = "except" /\ err \in WholeTextRejections \cup RowRejections) => grid = None

\* C6, amended: the checks on the whole text and on the header reject before
\* the grid is created; the checks on a row line reject after the grid was
\* created and the rows of the earlier lines were appended, and before the row
\* of the rejected line is appended.
C6_GuardBeforeOwnRow ==
    pc = "except" =>
        /\ err \in WholeTextRejections => grid = None
        /\ err \in RowRejections =>
            /\ grid # None
            /\ ParseRowLine(ColNames(columns), lines[line_idx + 1]) = Raise(err)
            /\ Len(grid[5]) = Len(RowSource(lines, line_idx))

\* C6: a row line is rejected after the row of an earlier line was appended
C6_Witness ==
    /\ pc = "except" /\ err = "Malformed value in row"
    /\ grid # None /\ Len(grid[5]) = 1

\* C7: a text that contains << or { fails in the first check, before the text
\* is split into lines and any line is parsed, and parse_grid returns the
\* fallback's result for it.
C7_ComplexGridFallsBack ==
    (Contains(arg, Str(<<"<", "<">>)) \/ Contains(arg, Str(<<"{">>))) =>
        /\ pc \in {"guard", "except", "done"}
        /\ lines = <<>> /\ version = None /\ grid_meta = None
        /\ columns = None /\ grid = None
        /\ pc # "guard" => err = "Complex grid"
        /\ pc = "done" => slow_calls = <<arg>> /\ ret = parse_grid_slow(arg)

\* C7: a text with { in a row line, and no <<, was handed to the fallback
C7_Witness ==
    /\ pc = "done" /\ err = "Complex grid"
    /\ Contains(arg, Str(<<"{">>)) /\ ~Contains(arg, Str(<<"<", "<">>))
    /\ Len(split(arg, ord("\n"))) >= 3
    /\ ret = <<"full grammar", arg>>

\* C9: the rows of the grid are, in source order, the rows of the non-blank
\* lines after the header line that were passed so far (all of them when the
\* grid is returned), and the columns of the grid are those of the header line.
C9_RowsInSourceOrder ==
    grid # None =>
        /\ lines = split(arg, ord("\n"))
        /\ columns = ParseColumnLine(lines)[2] /\ grid[4] = columns
        /\ pc = "done" /\ err = "" => line_idx = Len(lines)
        /\ Len(grid[5]) = Len(RowSource(lines, line_idx))
        /\ \A k \in 1..Len(grid[5]) :
            ParseRowLine(ColNames(columns), RowSource(lines, line_idx)[k])
                = <<"ok", grid[5][k], rules[k]>>

\* C9: a grid is returned whose one row comes from the line after a blank line
C9_Witness ==
    /\ FastReturned
    /\ Len(lines) = 4 /\ ~NonBlankLine(lines[3])
    /\ Len(grid[5]) = 1

\* the rules of _parse_scalar that give a typed value
TypedRules ==
    {"singleton", "special", "Coordinate", "Reference", "Binary", "ExtendedString",
     "Uri", "String", "DateTime", "Date", "Time", "Number"}

\* C10: in a returned grid every non-empty field was decoded by a typed rule,
\* none by the pass-through of rule 14.
C10_NoOpaqueValue ==
    FastReturned =>
        \A r \in 1..Len(rules) : \A i \in 1..Len(rules[r]) :
            rules[r][i] \in TypedRules \cup {"empty"}

====
